---- MODULE Spec2Model ----
(***************************************************************************)
(* Celestial Engine: the quality-assessment and refinement loop.           *)
(*                                                                         *)
(* The model follows celestial_engine/refinement/refiner.py (EntryRefiner) *)
(* and celestial_engine/validation/validator.py (EntryValidator).          *)
(*                                                                         *)
(* Text.  A section's content is represented by what the validator's and   *)
(* the refiner's pattern matching extract from it: its number of           *)
(* whitespace-separated words and the number of matches of each pattern    *)
(* family.  Texts is the finite set of contents an entry starts with and   *)
(* the generation collaborator answers with.                               *)
(*                                                                         *)
(* Numbers.  Criterion scores are fixed-point integers in hundredths of a  *)
(* point (10000 is the score 100.0); the overall score is in ten-          *)
(* thousandths of a point (1000000 is 100.0), which is exact for the       *)
(* default weights.  The two divisions of the word-count score and the     *)
(* square root of the section-balance score are truncated to a hundredth.  *)
(*                                                                         *)
(* refine_to_celestial is modelled as called with progress = None, the     *)
(* default of its third parameter.                                         *)
(***************************************************************************)
EXTENDS Integers, Sequences, FiniteSets, TLC

(***************************************************************************)
(* Bounds of the model.                                                    *)
(***************************************************************************)
\* max_iterations ranges over 0..MaxIterations
MaxIterations == 2
\* number of sections of the entry (a prefix of SectionConfigs)
NumSections == 2
\* a Section's content has at most MaxChars characters
MaxChars == 3
\* the constructor's word_count argument ranges over 0..MaxWordCountArg
MaxWordCountArg == 2
\* update_content is called at most MaxUpdates times on a Section
MaxUpdates == 2
\* llm.retry_attempts ranges over 0..MaxRetries
MaxRetries == 4
\* a batch has at most MaxTopics topics
MaxTopics == 3

\* None, as a value comparable with a ValidationResult record
NULL == [none |-> TRUE]

(***************************************************************************)
(* Section configuration: models.py Section defaults for the word bounds;  *)
(* the slugs are those of SectionType, in an order that puts sections of   *)
(* different refinement roles first.                                       *)
(***************************************************************************)
SectionConfigs ==
    << [slug |-> "introduction",         min_words |-> 1500, target_words |-> 2000, max_words |-> 2500],
       [slug |-> "conclusion",           min_words |-> 1500, target_words |-> 2000, max_words |-> 2500],
       [slug |-> "symphony_of_clashes",  min_words |-> 1500, target_words |-> 2000, max_words |-> 2500],
       [slug |-> "patristic_mind",       min_words |-> 1500, target_words |-> 2000, max_words |-> 2500],
       [slug |-> "orthodox_affirmation", min_words |-> 1500, target_words |-> 2000, max_words |-> 2500],
       [slug |-> "synthesis",            min_words |-> 1500, target_words |-> 2000, max_words |-> 2500] >>

SectionIdx == 1..NumSections

\* the number of sections of a complete entry
SectionCount == 6

(***************************************************************************)
(* Texts.  Each field is the number of matches the code's patterns find:   *)
(*   words      len(content.split())                                       *)
(*   fathers    set of father_patterns that match, each `per_father` times *)
(*   st         content.count("St.")                                       *)
(*   works      matches of work_patterns                                   *)
(*   scripture  matches of the scripture pattern                           *)
(*   terms      matches of the Orthodox-term pattern                       *)
(*   cross      matches of the cross-reference patterns                    *)
(*   orthodox / western / lived   matches of the framing patterns          *)
(*   patristic  whether (Patristic|Fathers|Church Father) matches          *)
(***************************************************************************)
TextTable ==
    [ EMPTY |-> [words |-> 0,    fathers |-> {},          per_father |-> 0, st |-> 0,
                 works |-> 0, scripture |-> 0,  terms |-> 0,  cross |-> 0,
                 orthodox |-> 0, western |-> 0, lived |-> 0, patristic |-> FALSE],
      DRAFT |-> [words |-> 5000, fathers |-> {1,2,3,4,5}, per_father |-> 2, st |-> 10,
                 works |-> 2, scripture |-> 5,  terms |-> 15, cross |-> 0,
                 orthodox |-> 3, western |-> 1, lived |-> 2, patristic |-> TRUE],
      FULL  |-> [words |-> 6000, fathers |-> {1,2,3,4,5}, per_father |-> 2, st |-> 10,
                 works |-> 2, scripture |-> 10, terms |-> 8,  cross |-> 3,
                 orthodox |-> 5, western |-> 2, lived |-> 3, patristic |-> TRUE] ]

Texts == DOMAIN TextTable

\* Texts for direct calls of the validator: a section without any citation
\* or theological term (PLAIN), the same with a mention of the Fathers
\* (MENTION), a section citing four Fathers once each (CITED) and a section
\* that alone meets every count the validator asks of an entry (RICH).
ProbeTable ==
    [ PLAIN   |-> [words |-> 2000, fathers |-> {},          per_father |-> 0, st |-> 0,
                   works |-> 1, scripture |-> 3,  terms |-> 0,  cross |-> 1,
                   orthodox |-> 2, western |-> 1, lived |-> 1, patristic |-> FALSE],
      MENTION |-> [words |-> 2000, fathers |-> {},          per_father |-> 0, st |-> 0,
                   works |-> 0, scripture |-> 2,  terms |-> 0,  cross |-> 0,
                   orthodox |-> 1, western |-> 0, lived |-> 1, patristic |-> TRUE],
      CITED   |-> [words |-> 2000, fathers |-> {1,2,3,4},   per_father |-> 1, st |-> 4,
                   works |-> 1, scripture |-> 3,  terms |-> 3,  cross |-> 1,
                   orthodox |-> 2, western |-> 1, lived |-> 1, patristic |-> FALSE],
      RICH    |-> [words |-> 2000, fathers |-> {1,2,3,4,5}, per_father |-> 4, st |-> 20,
                   works |-> 3, scripture |-> 15, terms |-> 15, cross |-> 5,
                   orthodox |-> 10, western |-> 3, lived |-> 5, patristic |-> TRUE] ]

ProbeTexts == {"EMPTY"} \cup DOMAIN ProbeTable

Feat(content) ==
    IF content \in DOMAIN TextTable THEN TextTable[content] ELSE ProbeTable[content]

\* len(content.split())
WordsOf(content) == Feat(content).words

(***************************************************************************)
(* Arithmetic helpers.                                                     *)
(***************************************************************************)
Min(a, b) == IF a < b THEN a ELSE b
Max(a, b) == IF a > b THEN a ELSE b

RECURSIVE SumSeq(_)
SumSeq(s) == IF s = <<>> THEN 0 ELSE Head(s) + SumSeq(Tail(s))

\* floor of the square root, by bisection on lo..hi
RECURSIVE ISqrtIn(_, _, _)
ISqrtIn(n, lo, hi) ==
    IF lo >= hi THEN lo
    ELSE LET mid == (lo + hi + 1) \div 2
         IN  IF mid * mid <= n THEN ISqrtIn(n, mid, hi) ELSE ISqrtIn(n, lo, mid - 1)

ISqrt(n) == ISqrtIn(n, 0, 46340)

(***************************************************************************)
(* Entry and Section (core/models.py).  An entry's sections are a sequence *)
(* of records [content, word_count]; slug and word bounds of section i are *)
(* SectionConfigs[i].                                                      *)
(***************************************************************************)
\* Section.__post_init__ / the state update_content leaves a section in
NewSection(content) == [content |-> content, word_count |-> WordsOf(content)]

\* Section.update_content applied to section i of the entry
update_content(secs, i, content) ==
    [secs EXCEPT ![i] = [content |-> content, word_count |-> WordsOf(content)]]

\* Entry.total_words
total_words(secs) == SumSeq([i \in 1..Len(secs) |-> secs[i].word_count])

\* sum over the full text of a per-section match count
CountAll(secs, field) == SumSeq([i \in 1..Len(secs) |-> Feat(secs[i].content)[field]])

(***************************************************************************)
(* EntryValidator (validation/validator.py).                               *)
(***************************************************************************)
\* _collect_statistics
collect_statistics(secs) ==
    [ total_words          |-> total_words(secs),
      patristic_citations  |-> SumSeq([i \in 1..Len(secs) |->
                                  Cardinality(Feat(secs[i].content).fathers)
                                    * Feat(secs[i].content).per_father]),
      unique_fathers       |-> Cardinality(UNION {Feat(secs[i].content).fathers : i \in 1..Len(secs)}),
      named_works          |-> CountAll(secs, "works"),
      scripture_references |-> CountAll(secs, "scripture"),
      orthodox_terms       |-> CountAll(secs, "terms") ]

\* _validate_word_count; total_min is entry.word_counts.total_min (default 11000)
validate_word_count(secs) ==
    LET total_min == 11000
        total     == total_words(secs)
        deficit   == total_min - total
        totalPen  == IF total < total_min
                     THEN Min((deficit * 10000) \div total_min, 5000) ELSE 0
        secPen(i) == LET wc == secs[i].word_count
                         mw == SectionConfigs[i].min_words
                     IN  (IF wc < mw THEN Min(((mw - wc) * 2000) \div mw, 1500) ELSE 0)
                         + (IF wc < 500 THEN 5000 ELSE 0)
        score     == 10000 - totalPen - SumSeq([i \in 1..Len(secs) |-> secPen(i)])
    IN  Max(score, 0)

\* the patristic-citation requirement is not applied
validate_theological_depth_uncited(secs) ==
    LET stats == collect_statistics(secs)
        short(n, need, per) == IF n < need THEN (need - n) * per ELSE 0
        score == 10000
                 - short(stats.scripture_references, 15, 200)
                 - short(stats.unique_fathers, 5, 500)
                 - short(stats.named_works, 3, 500)
                 - short(stats.orthodox_terms, 15, 150)
    IN  Max(score, 0)

\* _validate_theological_depth
validate_theological_depth(secs) ==
    LET stats == collect_statistics(secs)
        short(n, need, per) == IF n < need THEN (need - n) * per ELSE 0
        score == 10000
                 - short(stats.patristic_citations, 20, 250)
                 - short(stats.scripture_references, 15, 200)
                 - short(stats.unique_fathers, 5, 500)
                 - short(stats.named_works, 3, 500)
                 - short(stats.orthodox_terms, 15, 150)
    IN  Max(score, 0)

\* _assess_transitions and _assess_thematic_consistency: placeholders, 85.0
assess_transitions == 8500
assess_thematic_consistency == 8500

\* the cross-reference score alone, not averaged with the two assessments
validate_coherence_plain(secs) ==
    LET cross_refs == CountAll(secs, "cross")
    IN  Max(10000 - (IF cross_refs < 5 THEN (5 - cross_refs) * 500 ELSE 0), 0)

\* _validate_coherence
validate_coherence(secs) ==
    LET cross_refs == CountAll(secs, "cross")
        s0 == 10000 - (IF cross_refs < 5 THEN (5 - cross_refs) * 500 ELSE 0)
        s1 == (s0 + assess_transitions) \div 2
        s2 == (s1 + assess_thematic_consistency) \div 2
    IN  Max(s2, 0)

\* _validate_section_balance
validate_section_balance(secs) ==
    IF Len(secs) = 0 THEN 0
    ELSE
    LET n      == Len(secs)
        sum    == total_words(secs)
        sumSq  == SumSeq([i \in 1..n |-> secs[i].word_count * secs[i].word_count])
        \* variance = d / n^2
        d      == n * sumSq - sum * sum
        devPen == IF d > 250000 * n * n
                  THEN Min((2 * ISqrt(d)) \div n - 1000, 3000) ELSE 0
        secPen(i) == LET wc == secs[i].word_count
                         mw == SectionConfigs[i].min_words
                     IN  IF wc < mw THEN ((mw - wc) * 3000) \div mw ELSE 0
        score  == 10000 - devPen - SumSeq([i \in 1..n |-> secPen(i)])
    IN  Max(score, 0)

\* _validate_orthodox_perspective
validate_orthodox_perspective(secs) ==
    LET orthodox_mentions == CountAll(secs, "orthodox")
        western_contrasts == CountAll(secs, "western")
        lived_refs        == CountAll(secs, "lived")
        score == 10000
                 - (IF orthodox_mentions < 10 THEN (10 - orthodox_mentions) * 300 ELSE 0)
                 - (IF western_contrasts < 3 THEN (3 - western_contrasts) * 500 ELSE 0)
                 - (IF lived_refs < 5 THEN (5 - lived_refs) * 400 ELSE 0)
    IN  Max(score, 0)

\* number of father_patterns matches in section i
section_citations(secs, i) ==
    Cardinality(Feat(secs[i].content).fathers) * Feat(secs[i].content).per_father

\* _calculate_diversity_score
calculate_diversity_score(secs) ==
    LET count == Cardinality(UNION {Feat(secs[i].content).fathers : i \in 1..Len(secs)})
    IN  IF count >= 5 THEN 10000
        ELSE IF count = 4 THEN 8000
        ELSE IF count = 3 THEN 6000
        ELSE 4000

\* _calculate_specificity_score
calculate_specificity_score(secs) ==
    LET works_cited == CountAll(secs, "works")
    IN  IF works_cited >= 3 THEN 10000
        ELSE IF works_cited = 2 THEN 7000
        ELSE IF works_cited = 1 THEN 4000
        ELSE 2000

\* _calculate_integration_score: std_dev < k is d < k * k * n * n, where
\* variance = d / n^2
calculate_integration_score(secs) ==
    LET n     == Len(secs)
        sum   == SumSeq([i \in 1..n |-> section_citations(secs, i)])
        sumSq == SumSeq([i \in 1..n |->
                     section_citations(secs, i) * section_citations(secs, i)])
        d     == n * sumSq - sum * sum
    IN  IF n = 0 \/ sum = 0 THEN 0
        ELSE IF d < 4 * n * n THEN 10000
        ELSE IF d < 16 * n * n THEN 8500
        ELSE IF d < 36 * n * n THEN 7000
        ELSE 5000

\* _calculate_distribution_score
calculate_distribution_score(secs) ==
    LET patristic_sections ==
            Cardinality({i \in 1..Len(secs) :
                \/ Feat(secs[i].content).fathers # {}
                \/ Feat(secs[i].content).patristic})
    IN  IF patristic_sections >= 5 THEN 10000
        ELSE IF patristic_sections = 4 THEN 8500
        ELSE IF patristic_sections = 3 THEN 6500
        ELSE 4000

\* the gate read off the composite score alone
passed_by_tier(tier, diversity, specificity, integration, distribution) ==
    tier = "CELESTIAL"

\* validate, "Check if passed"
passed(tier, diversity, specificity, integration, distribution) ==
    /\ tier = "CELESTIAL"
    /\ diversity >= 8000
    /\ specificity >= 7000
    /\ integration >= 7000
    /\ distribution >= 8500

\* _determine_tier; score in ten-thousandths of a point
determine_tier(score) ==
    IF      score >= 950000 THEN "CELESTIAL"
    ELSE IF score >= 900000 THEN "ADAMANTINE"
    ELSE IF score >= 850000 THEN "PLATINUM"
    ELSE IF score >= 800000 THEN "GOLD"
    ELSE IF score >= 750000 THEN "SILVER"
    ELSE IF score >= 700000 THEN "BRONZE"
    ELSE "UNRANKED"

\* EntryValidator.__init__: the default weights, in percent
weights ==
    [word_count |-> 20, theological_depth |-> 30, coherence |-> 25,
     section_balance |-> 15, orthodox_perspective |-> 10]

\* EntryValidator.validate: the scores, the gate and the statistics of
\* ValidationResult
validate_entry(secs) ==
    LET wc == validate_word_count(secs)
        td == validate_theological_depth(secs)
        co == validate_coherence(secs)
        sb == validate_section_balance(secs)
        op == validate_orthodox_perspective(secs)
        overall == wc * weights.word_count + td * weights.theological_depth
                   + co * weights.coherence + sb * weights.section_balance
                   + op * weights.orthodox_perspective
        stats == collect_statistics(secs)
        dv == calculate_diversity_score(secs)
        sp == calculate_specificity_score(secs)
        ig == calculate_integration_score(secs)
        ds == calculate_distribution_score(secs)
    IN  [ overall_score              |-> overall,
          tier                       |-> determine_tier(overall),
          passed                     |-> passed(determine_tier(overall), dv, sp, ig, ds),
          diversity_score            |-> dv,
          specificity_score          |-> sp,
          integration_score          |-> ig,
          distribution_score         |-> ds,
          word_count_score           |-> wc,
          theological_depth_score    |-> td,
          coherence_score            |-> co,
          section_balance_score      |-> sb,
          orthodox_perspective_score |-> op,
          total_words                |-> stats.total_words,
          patristic_citations        |-> stats.patristic_citations ]

\* every list of sections an entry can hold: each section is written only
\* by update_content, with one of the texts
EntrySpace == [SectionIdx -> {NewSection(t) : t \in Texts}]

\* validate_entry tabulated over EntrySpace.  validate is deterministic in
\* the sections, so the table is computed once (@@ makes it an explicit
\* function) and every validation pass reads it
ValidateTable == [secs \in EntrySpace |-> validate_entry(secs)] @@ << >>

\* self.validator.validate(entry)
validate(secs) == ValidateTable[secs]

(***************************************************************************)
(* Configuration (core/config.py).  A trigger string "<metric> < <X>" is   *)
(* the record [metric |-> "<metric>", threshold |-> X]; a strategy is a    *)
(* record [name, priority, triggers].  The configuration file is not part  *)
(* of the sources, so the model runs under each of StrategyConfigs.        *)
(***************************************************************************)
Trig(m, x) == [metric |-> m, threshold |-> x]
Strategy(n, p, t) == [name |-> n, priority |-> p, triggers |-> t]

StrategyConfigs ==
    { \* no strategy configured
      <<>>,
      \* the five known strategies, listed in priority order
      << Strategy("enhance_theological_depth", 1,
                  << Trig("theological_depth", 70), Trig("patristic_citations", 20) >>),
         Strategy("expand_sections", 2, << Trig("word_count", 80), Trig("any_section", 1500) >>),
         Strategy("improve_coherence", 3, << Trig("coherence", 84) >>),
         Strategy("balance_sections", 4, << Trig("section_balance", 80) >>),
         Strategy("strengthen_orthodox_perspective", 5, << Trig("orthodox_perspective", 85) >>) >>,
      \* listed out of priority order, with equal priorities, an unknown
      \* strategy name, a strategy without triggers and an unknown metric
      << Strategy("strengthen_orthodox_perspective", 3, << Trig("orthodox_perspective", 95) >>),
         Strategy("polish_style", 1, << Trig("coherence", 90) >>),
         Strategy("expand_sections", 2, << Trig("readability", 50), Trig("any_section", 1500) >>),
         Strategy("enhance_theological_depth", 2, << Trig("theological_depth", 70) >>),
         Strategy("improve_coherence", 0, << >>),
         Strategy("balance_sections", 0, << Trig("readability", 50) >>) >> }

\* the values of entry.min_score the model runs under (default 95)
MinScores == {95, 97}

\* QualityTier (core/models.py)
QualityTiers ==
    {"CELESTIAL", "ADAMANTINE", "PLATINUM", "GOLD", "SILVER", "BRONZE", "UNRANKED"}

\* entry.target_tier: the default of EngineConfig.target_tier
DefaultTargetTiers == {"CELESTIAL"}

\* configurations that set entry.target_tier, with minimum scores a result
\* of the configured tier can meet
ConfiguredTargetTiers == {"CELESTIAL", "ADAMANTINE", "PLATINUM"}
ConfiguredMinScores == {85, 95}

VARIABLES
    \* the entry
    sections,               \* entry.sections
    validation_result,      \* entry.validation_result, NULL when None
    refinement_iterations,  \* entry.refinement_iterations
    \* the call's argument and the configuration
    max_iterations,
    strategies,             \* config.refinement_strategies
    min_score,              \* config.min_score
    target_tier,            \* config.target_tier
    \* locals of refine_to_celestial
    iteration,
    best_score,
    tasks,                  \* the task list of the current iteration
    task_idx,               \* position of the task being executed
    targets,                \* sections the current task has still to rewrite
    pc,                     \* "loop", "exec", "final", "done"
    \* observers
    validations,            \* validator.validate calls made by this call
    gen_calls,              \* generation calls made since the last validation pass
    last_response,          \* how the last of them ended: "none", "success", "failure", "raised"
    full_iterations,        \* iterations whose whole task list was executed
    stable,                 \* every validation pass so far gave the same result
    exit_path,              \* "none", "success", "no_tasks", "exhausted"
    \* a direct call of EntryValidator.validate
    v_sections,             \* the sections of the entry passed to validate
    v_result,               \* the ValidationResult returned, NULL before the call
    \* a call of OllamaInterface.generate_with_model_type
    retry_attempts,         \* self.retry_attempts (config llm.retry_attempts)
    configured_models,      \* the keys of config llm.models
    caller,                 \* "refiner" or "generator"
    model_type,             \* the ModelType the caller asks for
    attempt,                \* the loop variable of generate
    outcomes,               \* how each request made so far ended: "ok" or "fail"
    sleeps,                 \* the seconds of each time.sleep made so far
    llm_response,           \* the value returned to the caller (NULL: None)
    llm_pc,                 \* "idle", "call", "attempt", "returned", "done"
    caller_outcome,         \* what reading the response led the caller to
    \* a call of BatchProcessor.process_batch
    parallel_workers,       \* self.parallel_workers
    checkpoint_interval,    \* self.checkpoint_interval
    topics,                 \* the argument: a list of distinct topics
    checkpoint_file,        \* "completed_topics" of batch_checkpoint.json on disk
    loaded,                 \* what _load_checkpoint returned
    completed_topics,       \* the set process_batch accumulates
    remaining_topics,       \* the topics still to process
    progress,               \* BatchProgress: completed and failed
    next_topic,             \* sequential mode: index of the next loop pass
    futures,                \* parallel mode: state of each submitted future
    attempts,               \* calls of generator.generate per topic
    saved_entries,          \* topics whose entry _save_entry wrote in this run
    handled,                \* topics whose loop pass has ended
    batch_pc,               \* "idle", "start", "processing", "returned", "raised"
    \* _process_parallel at the granularity of its statements
    registers,              \* per topic: the counter value its "+= 1" has read
    \* one Section object (core/models.py), its content spelled out in characters
    content_arg,            \* the content argument of the constructor
    word_count_arg,         \* the word_count argument of the constructor
    section_obj,            \* the object's content and word_count, NULL before construction
    update_calls,           \* update_content calls made on it
    \* a call of EntryRefiner._check_trigger
    trigger_arg,            \* the trigger: metric name and the number after "<"
    validation_arg,         \* the ValidationResult passed
    trigger_result,         \* << the value returned >>, << >> before the call
    \* a call of CelestialGenerator.generate, from its validation phase on
    max_refinements,        \* the argument: << M >>, or << >> for None
    refinement_max_iterations   \* config.refinement_max_iterations

refiner_vars ==
        << sections, validation_result, refinement_iterations, max_iterations,
           strategies, min_score, target_tier, iteration, best_score, tasks, task_idx,
           targets, pc, validations, gen_calls, last_response, full_iterations,
           stable, exit_path >>

validator_vars == << v_sections, v_result >>

llm_vars == << retry_attempts, configured_models, caller, model_type, attempt,
               outcomes, sleeps, llm_response, llm_pc, caller_outcome >>

batch_vars == << parallel_workers, checkpoint_interval, topics, checkpoint_file,
                 loaded, completed_topics, remaining_topics, progress, next_topic,
                 futures, attempts, saved_entries, handled, batch_pc >>

pass_vars == << registers >>

section_vars == << content_arg, word_count_arg, section_obj, update_calls >>

trigger_vars == << trigger_arg, validation_arg, trigger_result >>

generator_vars == << max_refinements, refinement_max_iterations >>

vars == << refiner_vars, validator_vars, llm_vars, batch_vars, pass_vars, section_vars, trigger_vars, generator_vars >>

\* what a call of refine_to_celestial leaves alone
outside_refiner == << validator_vars, llm_vars, batch_vars, pass_vars, section_vars, trigger_vars, generator_vars >>

\* what a call of the generation interface leaves alone
outside_llm == << refiner_vars, validator_vars, batch_vars, pass_vars, section_vars, trigger_vars, generator_vars >>

\* what a call of process_batch leaves alone
outside_batch == << refiner_vars, validator_vars, llm_vars, pass_vars, section_vars, trigger_vars, generator_vars >>

\* what a direct call of the validator leaves alone
outside_validator == << refiner_vars, llm_vars, batch_vars, pass_vars, section_vars, trigger_vars, generator_vars >>

(***************************************************************************)
(* EntryRefiner (refinement/refiner.py).                                   *)
(***************************************************************************)
\* _check_trigger
check_trigger(trigger, validation) ==
    IF      trigger.metric = "theological_depth"
    THEN validation.theological_depth_score < trigger.threshold * 100
    ELSE IF trigger.metric = "patristic_citations"
    THEN validation.patristic_citations < trigger.threshold
    ELSE IF trigger.metric = "word_count"
    THEN validation.word_count_score < 8000
    ELSE IF trigger.metric = "any_section"
    THEN validation.section_balance_score < 8000
    ELSE IF trigger.metric = "coherence"
    THEN validation.coherence_score < trigger.threshold * 100
    ELSE IF trigger.metric = "section_balance"
    THEN validation.section_balance_score < trigger.threshold * 100
    ELSE IF trigger.metric = "orthodox_perspective"
    THEN validation.orthodox_perspective_score < trigger.threshold * 100
    ELSE FALSE

\* every trigger must hold
RECURSIVE all_triggers(_, _)
all_triggers(triggers, validation) ==
    IF triggers = <<>> THEN FALSE
    ELSE IF ~check_trigger(Head(triggers), validation) THEN FALSE
    ELSE IF Tail(triggers) = <<>> THEN TRUE
    ELSE all_triggers(Tail(triggers), validation)

\* the inner loop of _identify_refinement_tasks: scan the triggers in order,
\* stop at the first that holds
RECURSIVE any_trigger(_, _)
any_trigger(triggers, validation) ==
    IF triggers = <<>> THEN FALSE
    ELSE IF check_trigger(Head(triggers), validation) THEN TRUE
    ELSE any_trigger(Tail(triggers), validation)

\* RefinementTask(strategy_name, priority)
RefinementTask(strategy) == [strategy_name |-> strategy.name, priority |-> strategy.priority]

\* the outer loop of _identify_refinement_tasks: one task per triggered
\* strategy, in configuration order
RECURSIVE collect_tasks(_, _)
collect_tasks(strats, validation) ==
    IF strats = <<>> THEN <<>>
    ELSE (IF any_trigger(Head(strats).triggers, validation)
          THEN << RefinementTask(Head(strats)) >> ELSE <<>>)
         \o collect_tasks(Tail(strats), validation)

\* the list is left in configuration order
unsorted(ts) == ts

\* the place of ts[i] after list.sort(key=priority): the sort is stable, so
\* the tasks before it are those of lower priority value and those of equal
\* priority value that stood before it
place(ts, i) ==
    1 + Cardinality({j \in 1..Len(ts) :
            \/ ts[j].priority < ts[i].priority
            \/ ts[j].priority = ts[i].priority /\ j < i})

\* tasks.sort(key=lambda t: t.priority)
sort_by_priority(ts) ==
    [k \in 1..Len(ts) |-> ts[CHOOSE i \in 1..Len(ts) : place(ts, i) = k]]

\* _identify_refinement_tasks
\* (the collected list is bound once, then sorted)
identify_refinement_tasks(strats, validation) ==
    CHOOSE sorted \in {sort_by_priority(ts) : ts \in {collect_tasks(strats, validation)}} : TRUE

\* the indices i of lo..Len(secs), ascending, for which keep[i] holds
RECURSIVE select_from(_, _, _)
select_from(secs, keep, lo) ==
    IF lo > Len(secs) THEN <<>>
    ELSE (IF keep[lo] THEN << lo >> ELSE <<>>) \o select_from(secs, keep, lo + 1)

\* every strategy, known or not, sends every section
task_targets_all(task, secs) == select_from(secs, [i \in 1..Len(secs) |-> TRUE], 1)

\* the sections a strategy sends to the generation collaborator, in order:
\* _enhance_theological_depth, _expand_sections, _improve_coherence,
\* _balance_sections, _strengthen_orthodox_perspective; an unknown name
\* (the else branch of _execute_refinement_task) rewrites nothing
task_targets(task, secs) ==
    LET n == Len(secs) IN
    IF task.strategy_name = "enhance_theological_depth"
    THEN select_from(secs, [i \in 1..n |->
             Feat(secs[i].content).st < 3
             /\ SectionConfigs[i].slug \in {"introduction", "patristic_mind", "orthodox_affirmation"}], 1)
    ELSE IF task.strategy_name = "expand_sections"
    THEN select_from(secs, [i \in 1..n |-> secs[i].word_count < SectionConfigs[i].min_words], 1)
    ELSE IF task.strategy_name = "improve_coherence"
    THEN select_from(secs, [i \in 1..n |-> TRUE], 2)
    ELSE IF task.strategy_name = "balance_sections"
    THEN select_from(secs, [i \in 1..n |->
             secs[i].word_count * 10 > SectionConfigs[i].max_words * 12], 1)
    ELSE IF task.strategy_name = "strengthen_orthodox_perspective"
    THEN select_from(secs, [i \in 1..n |->
             SectionConfigs[i].slug \in {"introduction", "orthodox_affirmation", "conclusion"}], 1)
    ELSE <<>>

\* variants of the definitions below, each a slip the code could contain
loop_condition_inclusive(it, max_it) == it <= max_it
loop_condition_short(it, max_it) == it + 1 < max_it

\* the while condition of refine_to_celestial
loop_condition(it, max_it) == it < max_it

\* the QualityTier member compared with the string: never equal
target_achieved_enum(validation, min_sc) ==
    validation.tier = "QualityTier.CELESTIAL" /\ validation.overall_score >= min_sc * 10000

\* the target is the validator's passed flag
target_achieved_passed(validation, min_sc) ==
    validation.passed /\ validation.overall_score >= min_sc * 10000

\* "Check if target achieved"
target_achieved(validation, min_sc) ==
    validation.tier = "CELESTIAL" /\ validation.overall_score >= min_sc * 10000

\* "Track best score"
track_best(best, validation) ==
    IF validation.overall_score > best THEN validation.overall_score ELSE best

\* no return: control falls out of the if to the end of the loop
after_target_achieved_fallthrough == "final"

\* where control goes when the target is achieved (return entry)
after_target_achieved == "done"

\* continue in place of break
after_no_tasks_continue == "loop"

\* where control goes when no task is identified (break)
after_no_tasks == "final"

\* the result of the pass is not stored
attach_validation_dropped(previous, validation) == previous

\* entry.validation_result = <result of the pass>
attach_validation(previous, validation) == validation

\* the success flag is not read
apply_response_unchecked(secs, i, response) == update_content(secs, i, response.text)

\* "except Exception" around _execute_refinement_task: what is left of the
\* task's target sections once an exception has left the task
on_task_exception(remaining) == <<>>

\* "if response.success: section.update_content(response.text.strip())"
apply_response(secs, i, response) ==
    IF response.success THEN update_content(secs, i, response.text) ELSE secs

(***************************************************************************)
(* Initial states: refine_to_celestial has been called and has run lines   *)
(* 46-49.  The entry is as the generator leaves it: every section built by *)
(* update_content, validation_result either None or the result of          *)
(* validating these sections.                                              *)
(***************************************************************************)
RefinerInit(tiers, scores) ==
    /\ \E f \in [SectionIdx -> Texts] : sections = [i \in SectionIdx |-> NewSection(f[i])]
    /\ validation_result \in {NULL, validate(sections)}
    /\ refinement_iterations = 0
    /\ max_iterations \in 0..MaxIterations
    /\ strategies \in StrategyConfigs
    /\ min_score \in scores
    /\ target_tier \in tiers
    /\ iteration = 0
    /\ best_score = IF validation_result = NULL THEN 0 ELSE validation_result.overall_score
    /\ tasks = <<>>
    /\ task_idx = 0
    /\ targets = <<>>
    /\ pc = "loop"
    /\ validations = 0
    /\ gen_calls = 0
    /\ last_response = "none"
    /\ full_iterations = 0
    /\ stable = TRUE
    /\ exit_path = "none"

\* no direct call of the validator is in progress
ValidatorIdle == v_sections = << >> /\ v_result = NULL

\* no call of refine_to_celestial is in progress
RefinerIdle ==
    /\ sections = << >>
    /\ validation_result = NULL
    /\ refinement_iterations = 0
    /\ max_iterations = 0
    /\ strategies = << >>
    /\ min_score = 95
    /\ target_tier = "CELESTIAL"
    /\ iteration = 0
    /\ best_score = 0
    /\ tasks = << >>
    /\ task_idx = 0
    /\ targets = << >>
    /\ pc = "idle"
    /\ validations = 0
    /\ gen_calls = 0
    /\ last_response = "none"
    /\ full_iterations = 0
    /\ stable = TRUE
    /\ exit_path = "none"

\* no call of the generation interface is in progress
LLMIdle ==
    /\ retry_attempts = 0
    /\ configured_models = {}
    /\ caller = "none"
    /\ model_type = "none"
    /\ attempt = 0
    /\ outcomes = << >>
    /\ sleeps = << >>
    /\ llm_response = NULL
    /\ llm_pc = "idle"
    /\ caller_outcome = "none"

\* no call of process_batch is in progress
BatchIdle ==
    /\ parallel_workers = 0
    /\ checkpoint_interval = 0
    /\ topics = << >>
    /\ checkpoint_file = {}
    /\ loaded = {}
    /\ completed_topics = {}
    /\ remaining_topics = << >>
    /\ progress = [completed |-> 0, failed |-> 0]
    /\ next_topic = 0
    /\ futures = << >>
    /\ attempts = << >>
    /\ saved_entries = {}
    /\ handled = {}
    /\ batch_pc = "idle"

\* no pass of the as_completed loop is in progress
PassIdle ==
    registers = << >>

\* no Section object is under observation
SectionIdle ==
    /\ content_arg = << >>
    /\ word_count_arg = 0
    /\ section_obj = NULL
    /\ update_calls = 0

\* no direct call of _check_trigger is in progress
TriggerIdle ==
    /\ trigger_arg = NULL
    /\ validation_arg = NULL
    /\ trigger_result = << >>

\* no call of CelestialGenerator.generate is in progress
GeneratorIdle ==
    /\ max_refinements = << >>
    /\ refinement_max_iterations = 0

\* the call under the default target tier
Init ==
    /\ RefinerInit(DefaultTargetTiers, MinScores)
    /\ ValidatorIdle
    /\ LLMIdle
    /\ BatchIdle
    /\ PassIdle
    /\ SectionIdle
    /\ TriggerIdle
    /\ GeneratorIdle

\* the call under a configuration that sets the target tier
TierInit ==
    /\ RefinerInit(ConfiguredTargetTiers, ConfiguredMinScores)
    /\ ValidatorIdle
    /\ LLMIdle
    /\ BatchIdle
    /\ PassIdle
    /\ SectionIdle
    /\ TriggerIdle
    /\ GeneratorIdle

config_vars == << max_iterations, strategies, min_score, target_tier >>

\* a validation pass: validator.validate(entry); entry.validation_result = ...
ValidationPass(v) ==
    /\ validation_result' = attach_validation(validation_result, v)
    /\ validations' = validations + 1
    /\ gen_calls' = 0
    /\ last_response' = "none"
    /\ stable' = (stable /\ (validations = 0 \/ v = validation_result))

\* lines 51-73: an iteration whose validation pass achieves the target
IterateAchieved ==
    /\ pc = "loop"
    /\ loop_condition(iteration, max_iterations)
    /\ \E v \in {validate(sections)} :
         /\ target_achieved(v, min_score)
         /\ ValidationPass(v)
    /\ iteration' = iteration + 1
    /\ refinement_iterations' = iteration + 1
    /\ pc' = after_target_achieved
    /\ exit_path' = "success"
    /\ UNCHANGED << sections, config_vars, outside_refiner, best_score, tasks, task_idx, targets, full_iterations >>

\* lines 51-84: an iteration in which no strategy is triggered
IterateNoTasks ==
    /\ pc = "loop"
    /\ loop_condition(iteration, max_iterations)
    /\ \E v \in {validate(sections)} :
         /\ ~target_achieved(v, min_score)
         /\ identify_refinement_tasks(strategies, v) = <<>>
         /\ ValidationPass(v)
         /\ best_score' = track_best(best_score, v)
    /\ iteration' = iteration + 1
    /\ refinement_iterations' = iteration + 1
    /\ tasks' = <<>>
    /\ pc' = after_no_tasks
    /\ exit_path' = "no_tasks"
    /\ UNCHANGED << sections, config_vars, outside_refiner, task_idx, targets, full_iterations >>

\* lines 51-91: an iteration that identifies tasks and starts the first
IterateExecute ==
    /\ pc = "loop"
    /\ loop_condition(iteration, max_iterations)
    /\ \E v \in {validate(sections)} :
         /\ ~target_achieved(v, min_score)
         /\ ValidationPass(v)
         /\ best_score' = track_best(best_score, v)
         /\ \E t \in {identify_refinement_tasks(strategies, v)} :
              /\ t # <<>>
              /\ tasks' = t
              /\ task_idx' = 1
              /\ targets' = task_targets(t[1], sections)
    /\ iteration' = iteration + 1
    /\ refinement_iterations' = iteration + 1
    /\ pc' = "exec"
    /\ UNCHANGED << sections, config_vars, outside_refiner, full_iterations, exit_path >>

\* the generation call for the next target section answers with a text
GenerateSuccess ==
    /\ pc = "exec"
    /\ targets # <<>>
    /\ \E text \in Texts :
         sections' = apply_response(sections, Head(targets), [success |-> TRUE, text |-> text])
    /\ targets' = Tail(targets)
    /\ gen_calls' = gen_calls + 1
    /\ last_response' = "success"
    /\ UNCHANGED << validation_result, refinement_iterations, config_vars, outside_refiner, iteration,
                    best_score, tasks, task_idx, pc, validations, full_iterations,
                    stable, exit_path >>

\* the generation call answers success = False: the section is skipped
GenerateFailure ==
    /\ pc = "exec"
    /\ targets # <<>>
    /\ sections' = apply_response(sections, Head(targets), [success |-> FALSE, text |-> "EMPTY"])
    /\ targets' = Tail(targets)
    /\ gen_calls' = gen_calls + 1
    /\ last_response' = "failure"
    /\ UNCHANGED << validation_result, refinement_iterations, config_vars, outside_refiner, iteration,
                    best_score, tasks, task_idx, pc, validations, full_iterations,
                    stable, exit_path >>

\* the generation call, or the use of its answer, raises: the exception
\* leaves _execute_refinement_task and is caught at lines 92-93, so the
\* rest of this task is abandoned
GenerateRaises ==
    /\ pc = "exec"
    /\ targets # <<>>
    /\ targets' = on_task_exception(targets)
    /\ gen_calls' = gen_calls + 1
    /\ last_response' = "raised"
    /\ UNCHANGED << sections, validation_result, refinement_iterations, config_vars, outside_refiner,
                    iteration, best_score, tasks, task_idx, pc, validations,
                    full_iterations, stable, exit_path >>

\* the current task is over: the for loop of lines 89-95 takes the next
\* task, or the while loop goes back to its condition
TaskReturns ==
    /\ pc = "exec"
    /\ targets = <<>>
    /\ IF task_idx < Len(tasks)
       THEN /\ task_idx' = task_idx + 1
            /\ targets' = task_targets(tasks[task_idx + 1], sections)
            /\ UNCHANGED << pc, full_iterations >>
       ELSE /\ pc' = "loop"
            /\ full_iterations' = full_iterations + 1
            /\ UNCHANGED << task_idx, targets >>
    /\ UNCHANGED << sections, validation_result, refinement_iterations, config_vars, outside_refiner,
                    iteration, best_score, tasks, validations, gen_calls, last_response,
                    stable, exit_path >>

\* the while condition fails: the iteration budget is exhausted
LoopExhausted ==
    /\ pc = "loop"
    /\ ~loop_condition(iteration, max_iterations)
    /\ pc' = "final"
    /\ exit_path' = "exhausted"
    /\ UNCHANGED << sections, validation_result, refinement_iterations, config_vars, outside_refiner,
                    iteration, best_score, tasks, task_idx, targets, validations,
                    gen_calls, last_response, full_iterations, stable >>

\* lines 97-107: the final validation and the return
FinalValidation ==
    /\ pc = "final"
    /\ \E v \in {validate(sections)} : ValidationPass(v)
    /\ pc' = "done"
    /\ UNCHANGED << sections, refinement_iterations, config_vars, outside_refiner, iteration, best_score,
                    tasks, task_idx, targets, full_iterations, exit_path >>

Next ==
    \/ IterateAchieved
    \/ IterateNoTasks
    \/ IterateExecute
    \/ GenerateSuccess
    \/ GenerateFailure
    \/ GenerateRaises
    \/ TaskReturns
    \/ LoopExhausted
    \/ FinalValidation

Spec == Init /\ [][Next]_vars

\* the calls the loop makes return, and the interpreter keeps running
FairSpec == Spec /\ WF_vars(Next)

\* refine_to_celestial under configured target tiers
TierSpec == TierInit /\ [][Next]_vars

(***************************************************************************)
(* A direct call of EntryValidator.validate, a pure function of the entry: *)
(* the entry is drawn from ProbeEntries and the call computes the result.  *)
(***************************************************************************)
\* the numbers of sections of the entries validated: none, one, complete
ProbeLengths == {0, 1, SectionCount}

ProbeEntries ==
    UNION { [1..n -> {NewSection(t) : t \in ProbeTexts}] : n \in ProbeLengths }

ValidatorInit ==
    /\ RefinerIdle
    /\ LLMIdle
    /\ BatchIdle
    /\ PassIdle
    /\ SectionIdle
    /\ TriggerIdle
    /\ GeneratorIdle
    /\ v_sections \in ProbeEntries
    /\ v_result = NULL

\* validator.validate(entry)
ValidateEntry ==
    /\ v_result = NULL
    /\ v_result' = validate_entry(v_sections)
    /\ UNCHANGED << v_sections, outside_validator >>

ValidatorNext == ValidateEntry

ValidatorSpec == ValidatorInit /\ [][ValidatorNext]_vars

(***************************************************************************)
(* Properties of the refinement loop.                                      *)
(***************************************************************************)
Done == pc = "done"

\* the target of refine_to_celestial, stated on a validation result
MeetsTarget(v) == v.tier = "CELESTIAL" /\ v.overall_score >= min_score * 10000

\* some trigger of strategy k holds on v
Fires(k, v) ==
    \E j \in 1..Len(strategies[k].triggers) : check_trigger(strategies[k].triggers[j], v)

\* number of tasks of the list ts that carry the name nm
TasksNamed(ts, nm) == Cardinality({i \in 1..Len(ts) : ts[i].strategy_name = nm})

\* C1: refine_to_celestial terminates for every entry, configuration,
\* collaborator behaviour and max_iterations = N >= 0, and the last value
\* written to entry.refinement_iterations is at most N.
C1_TerminatesWithinBudget ==
    /\ <>Done
    /\ [](refinement_iterations <= max_iterations /\ iteration <= max_iterations)

C1_Witness ==
    /\ Done
    /\ exit_path = "exhausted"
    /\ max_iterations > 1
    /\ refinement_iterations = max_iterations

\* C2 as claimed: the validator is invoked at most N times during one call.
C2_AtMostNValidations == validations <= max_iterations

\* C2 amended: the validator is invoked at most N + 1 times during one call:
\* at most N times by the loop and, on the exits that leave the loop without
\* success, once more by the final validation; on the success exit at most N
\* times.
C2_AtMostNPlusOneValidations ==
    /\ validations <= max_iterations + 1
    /\ (~Done => validations = iteration /\ iteration <= max_iterations)
    /\ (Done /\ exit_path = "success" => validations <= max_iterations)

C2_Witness ==
    /\ Done
    /\ exit_path = "exhausted"
    /\ max_iterations >= 1
    /\ validations = max_iterations + 1

\* C3: when every validation pass of the call yields the same result, whose
\* tier is not CELESTIAL and on which some strategy is triggered, the call
\* with max_iterations = N >= 1 returns after exactly N iterations, the task
\* list having been executed in each of them.
C3_ExactlyNIterations ==
    ( /\ Done
      /\ max_iterations >= 1
      /\ stable
      /\ validation_result.tier # "CELESTIAL"
      /\ \E k \in 1..Len(strategies) : Fires(k, validation_result) )
    => /\ refinement_iterations = max_iterations
       /\ full_iterations = max_iterations
       /\ exit_path = "exhausted"

C3_Witness ==
    /\ Done
    /\ max_iterations > 1
    /\ stable
    /\ validation_result.tier # "CELESTIAL"
    /\ tasks # <<>>
    /\ full_iterations = max_iterations

\* C4: a validation pass whose result has tier CELESTIAL and an overall score
\* >= min_score ends the call with success: the entry is returned with that
\* result attached, and after the pass no strategy is evaluated, no generation
\* call is made and no section is changed.
C4_StopsAtTarget ==
    [][ /\ ( validations' = validations + 1 /\ MeetsTarget(validate(sections)) )
           => /\ pc' = "done"
              /\ pc = "loop" => exit_path' = "success"
              /\ validation_result' = validate(sections)
              /\ sections' = sections
              /\ tasks' = tasks
              /\ gen_calls' = 0
        /\ ~Done ]_vars

C4_Witness ==
    /\ Done
    /\ exit_path = "success"
    /\ iteration > 1
    /\ MeetsTarget(validation_result)
    /\ validation_result = validate(sections)

\* C5: an iteration in which the target is not met and no strategy fires is
\* the last one: no generation call is made in it, no section is changed, and
\* no further iteration is run even when the budget allows more.
C5_StopsWithoutTasks ==
    [][ /\ ( /\ pc = "loop"
             /\ iteration < max_iterations
             /\ ~MeetsTarget(validate(sections))
             /\ \A k \in 1..Len(strategies) : ~Fires(k, validate(sections)) )
           => /\ exit_path' = "no_tasks"
              /\ iteration' = iteration + 1
              /\ pc' # "exec"
              /\ sections' = sections
              /\ gen_calls' = 0
        /\ exit_path = "no_tasks"
           => /\ pc' = "done"
              /\ iteration' = iteration
              /\ sections' = sections
              /\ gen_calls' = 0 ]_vars

C5_Witness ==
    /\ Done
    /\ exit_path = "no_tasks"
    /\ iteration < max_iterations
    /\ ~MeetsTarget(validation_result)
    /\ strategies # <<>>

\* C6: the task list holds exactly one task for each configured strategy of
\* which at least one trigger holds on the validation result, and none for
\* any other strategy; with the single trigger theological_depth < 70 the
\* strategy is listed at a depth score of 50 and not listed at 90.
C6_TaskIffTriggered ==
    (pc = "exec" \/ (pc = "final" /\ exit_path = "no_tasks"))
    => /\ \A k \in 1..Len(strategies) :
            TasksNamed(tasks, strategies[k].name)
              = IF Fires(k, validation_result) THEN 1 ELSE 0
       /\ \A i \in 1..Len(tasks) : \E k \in 1..Len(strategies) :
            /\ tasks[i].strategy_name = strategies[k].name
            /\ tasks[i].priority = strategies[k].priority
       /\ \A k \in 1..Len(strategies) :
            strategies[k].triggers = << Trig("theological_depth", 70) >>
            => /\ validation_result.theological_depth_score = 5000
                  => TasksNamed(tasks, strategies[k].name) = 1
               /\ validation_result.theological_depth_score = 9000
                  => TasksNamed(tasks, strategies[k].name) = 0

C6_Witness ==
    /\ pc = "exec"
    /\ validation_result.theological_depth_score = 5000
    /\ \E k \in 1..Len(strategies) :
         /\ strategies[k].triggers = << Trig("theological_depth", 70) >>
         /\ TasksNamed(tasks, strategies[k].name) = 1
    /\ \E k \in 1..Len(strategies) :
         /\ strategies[k].triggers # <<>>
         /\ TasksNamed(tasks, strategies[k].name) = 0

\* C7: within an iteration the tasks run one at a time in ascending order of
\* priority, each finished before the next starts, and all of them before the
\* next validation pass.
C7_AscendingPriority ==
    [][ /\ pc' = "exec"
           => /\ task_idx' \in 1..Len(tasks')
              /\ \A i, j \in 1..Len(tasks') :
                   i < j => tasks'[i].priority <= tasks'[j].priority
        /\ (pc = "exec" /\ pc' = "exec" /\ task_idx' # task_idx)
           => /\ targets = <<>>
              /\ task_idx' = task_idx + 1
              /\ tasks' = tasks
        /\ (pc = "loop" /\ pc' = "exec") => task_idx' = 1
        /\ (pc = "exec" /\ validations' # validations) => FALSE
        /\ (pc = "exec" /\ pc' # "exec")
           => /\ task_idx = Len(tasks)
              /\ targets = <<>>
              /\ pc' = "loop" ]_vars

C7_Witness ==
    /\ pc = "exec"
    /\ task_idx > 1
    /\ tasks[1].priority < tasks[task_idx].priority
    /\ tasks # collect_tasks(strategies, validation_result)

\* C8 as claimed: when a generation call answers success = false or a task
\* raises, the section is left as it was and the remaining sections of that
\* strategy are still processed.
C8_FailureKeepsRemainingSections ==
    [][ (gen_calls' = gen_calls + 1 /\ last_response' \in {"failure", "raised"})
        => /\ sections' = sections
           /\ targets' = Tail(targets)
           /\ task_idx' = task_idx
           /\ pc' = "exec" ]_vars

\* C8 amended: a failed rewrite is local and non-fatal.  When the generation
\* call for a section answers success = false, the section's content and word
\* count are left as they were and the remaining sections of that strategy are
\* still processed; when a task raises, the sections are left as they were and
\* the rest of that task is abandoned; in both cases the remaining tasks of
\* the iteration are still processed and the call does not return before
\* another validation pass.
C8_FailedRewriteIsLocal ==
    [][ /\ (gen_calls' = gen_calls + 1 /\ last_response' = "failure")
           => /\ sections' = sections
              /\ targets' = Tail(targets)
        /\ (gen_calls' = gen_calls + 1 /\ last_response' = "raised")
           => /\ sections' = sections
              /\ targets' = <<>>
        /\ gen_calls' = gen_calls + 1
           => /\ pc' = "exec"
              /\ tasks' = tasks
              /\ task_idx' = task_idx
        /\ gen_calls' > 0 => pc' \in {"exec", "loop", "final"} ]_vars

C8_Witness ==
    /\ pc = "exec"
    /\ last_response = "raised"
    /\ gen_calls > 1
    /\ task_idx < Len(tasks)
    /\ \E i \in SectionIdx : sections[i].content # "EMPTY"

\* C9: on every exit path the returned entry carries a validation result,
\* and it is the result of validating the sections the entry has at return.
C9_ResultMatchesReturnedContent ==
    Done => /\ validation_result # NULL
            /\ validation_result = validate(sections)

C9_Witness ==
    /\ Done
    /\ exit_path = "exhausted"
    /\ max_iterations = 1
    /\ ~stable
    /\ validation_result = validate(sections)

\* C10 as claimed: the overall score of the returned entry is at least the
\* highest overall score observed at a validation pass of the call.
C10_ReturnsBestScore ==
    Done => validation_result.overall_score >= best_score

\* C11 as claimed: under every configured target tier T and minimum score, a
\* validation pass of the loop whose tier equals T and whose overall score is
\* >= the configured minimum ends the call with success.
C11_StopsAtConfiguredTier ==
    [][ ( /\ pc = "loop"
          /\ validations' = validations + 1
          /\ validate(sections).tier = target_tier
          /\ validate(sections).overall_score >= min_score * 10000 )
        => /\ pc' = "done"
           /\ exit_path' = "success" ]_vars

\* the entry validated has no section with content
AllEmpty(secs) == \A i \in 1..Len(secs) : secs[i].content = "EMPTY"

\* some quality metric of the result is under its threshold
UnderThreshold(v) ==
    \/ v.diversity_score < 8000
    \/ v.specificity_score < 7000
    \/ v.integration_score < 7000
    \/ v.distribution_score < 8500

\* C12: passed is true iff the tier is CELESTIAL and diversity >= 80,
\* specificity >= 70, integration >= 70 and distribution >= 85; a result
\* whose composite is >= 95 with one of the four metrics under its threshold
\* has passed = false.
C12_PassedIffGate ==
    v_result # NULL =>
        /\ v_result.passed <=> (v_result.tier = "CELESTIAL" /\ ~UnderThreshold(v_result))
        /\ (v_result.overall_score >= 950000 /\ UnderThreshold(v_result))
              => ~v_result.passed

C12_Witness ==
    /\ v_result # NULL
    /\ v_result.overall_score >= 950000
    /\ v_result.integration_score < 7000
    /\ v_result.diversity_score >= 8000
    /\ v_result.specificity_score >= 7000
    /\ v_result.distribution_score >= 8500
    /\ ~v_result.passed

\* C13 as claimed: for every entry whose total word count is 0 (no section,
\* or only empty sections) the word-count score is 0 and the
\* theological-depth score is 0.
C13_NoWordsScoreZero ==
    (v_result # NULL /\ total_words(v_sections) = 0)
    => /\ v_result.word_count_score = 0
       /\ v_result.theological_depth_score = 0

\* C14 as claimed: for an entry with no section and for an entry whose
\* sections are all empty, validate returns and each of the five criterion
\* scores is 0.
C14_EmptyInputScoresZero ==
    (v_result # NULL /\ AllEmpty(v_sections))
    => /\ v_result.word_count_score = 0
       /\ v_result.theological_depth_score = 0
       /\ v_result.coherence_score = 0
       /\ v_result.section_balance_score = 0
       /\ v_result.orthodox_perspective_score = 0

\* an entry of SectionCount sections without any Church-Father citation and
\* without any Orthodox theological term
NoCitationNoTerm(secs) ==
    /\ Len(secs) = SectionCount
    /\ \A i \in 1..Len(secs) :
         Feat(secs[i].content).fathers = {} /\ Feat(secs[i].content).terms = 0

\* C15: an entry of 6 sections with 0 Church-Father citations and 0 Orthodox
\* terms, whatever its other counts, has an overall score below 70 and the
\* tier UNRANKED.
C15_NoCitationsIsUnranked ==
    (v_result # NULL /\ NoCitationNoTerm(v_sections))
    => /\ v_result.overall_score < 700000
       /\ v_result.tier = "UNRANKED"

C15_Witness ==
    /\ v_result # NULL
    /\ NoCitationNoTerm(v_sections)
    /\ v_result.word_count_score = 10000
    /\ v_result.coherence_score = 8875
    /\ v_result.section_balance_score = 10000
    /\ v_result.orthodox_perspective_score = 10000
    /\ v_result.theological_depth_score > 0

(***************************************************************************)
(* OllamaInterface.generate_with_model_type and generate                   *)
(* (core/llm_interface.py), and the callers' read of the response          *)
(* (refinement/refiner.py, core/generator.py)                              *)
(***************************************************************************)

\* class ModelType
ModelTypes == {"primary", "advanced", "preprocessor", "validator"}

\* the keys of llm.models: every class, every class but "advanced", none
ModelConfigs == {ModelTypes, ModelTypes \ {"advanced"}, {}}

\* who calls generate_with_model_type, and with which class
CallSites ==
    { [caller |-> "refiner", model_type |-> "advanced"],
      [caller |-> "generator", model_type |-> "primary"],
      [caller |-> "generator", model_type |-> "advanced"] }

RECURSIVE Pow2(_)
Pow2(k) == IF k = 0 THEN 1 ELSE 2 * Pow2(k - 1)

\* a wait that grows by one second per attempt
backoff_linear(k) == k + 1

\* "time.sleep(2 ** attempt)"
backoff(k) == Pow2(k)

\* GenerationResponse(text=..., success=True)
SuccessResponse == [success |-> TRUE, text |-> "FULL", error |-> "none"]

\* GenerationResponse(text="", success=False, error=str(e))
RequestFailedResponse == [success |-> FALSE, text |-> "", error |-> "request"]

\* GenerationResponse(text="", model="unknown", success=False,
\*                    error="Model type ... not configured")
NotConfiguredResponse == [success |-> FALSE, text |-> "", error |-> "not_configured"]

LLMInit ==
    /\ RefinerIdle
    /\ ValidatorIdle
    /\ BatchIdle
    /\ PassIdle
    /\ SectionIdle
    /\ TriggerIdle
    /\ GeneratorIdle
    /\ retry_attempts \in 0..MaxRetries
    /\ configured_models \in ModelConfigs
    /\ \E site \in CallSites : caller = site.caller /\ model_type = site.model_type
    /\ attempt = 0
    /\ outcomes = << >>
    /\ sleeps = << >>
    /\ llm_response = NULL
    /\ llm_pc = "call"
    /\ caller_outcome = "none"

llm_config == << retry_attempts, configured_models, caller, model_type >>

\* generate_with_model_type: "if not model_config: ... return GenerationResponse(...)"
ModelNotConfigured ==
    /\ llm_pc = "call"
    /\ model_type \notin configured_models
    /\ llm_response' = NotConfiguredResponse
    /\ llm_pc' = "returned"
    /\ UNCHANGED << llm_config, attempt, outcomes, sleeps, caller_outcome,
                    outside_llm >>

\* generate_with_model_type: "return self.generate(...)"
EnterGenerate ==
    /\ llm_pc = "call"
    /\ model_type \in configured_models
    /\ attempt' = 0
    /\ llm_pc' = "attempt"
    /\ UNCHANGED << llm_config, outcomes, sleeps, llm_response, caller_outcome,
                    outside_llm >>

\* one pass of "for attempt in range(self.retry_attempts)": the request succeeds
AttemptSucceeds ==
    /\ llm_pc = "attempt"
    /\ attempt < retry_attempts
    /\ outcomes' = Append(outcomes, "ok")
    /\ llm_response' = SuccessResponse
    /\ llm_pc' = "returned"
    /\ UNCHANGED << llm_config, attempt, sleeps, caller_outcome,
                    outside_llm >>

\* the request raises and "attempt < self.retry_attempts - 1": sleep, next pass
AttemptFailsRetry ==
    /\ llm_pc = "attempt"
    /\ attempt < retry_attempts
    /\ attempt < retry_attempts - 1
    /\ outcomes' = Append(outcomes, "fail")
    /\ sleeps' = Append(sleeps, backoff(attempt))
    /\ attempt' = attempt + 1
    /\ UNCHANGED << llm_config, llm_response, llm_pc, caller_outcome,
                    outside_llm >>

\* the request raises in the last pass: the failure response is returned
AttemptFailsLast ==
    /\ llm_pc = "attempt"
    /\ attempt < retry_attempts
    /\ ~(attempt < retry_attempts - 1)
    /\ outcomes' = Append(outcomes, "fail")
    /\ llm_response' = RequestFailedResponse
    /\ llm_pc' = "returned"
    /\ UNCHANGED << llm_config, attempt, sleeps, caller_outcome,
                    outside_llm >>

\* range(self.retry_attempts) is exhausted without a return: the function
\* ends and the call evaluates to None
LoopFallsThrough ==
    /\ llm_pc = "attempt"
    /\ ~(attempt < retry_attempts)
    /\ llm_response' = NULL
    /\ llm_pc' = "returned"
    /\ UNCHANGED << llm_config, attempt, outcomes, sleeps, caller_outcome,
                    outside_llm >>

\* _refine_section: "if response.success: ... update_content ..." and the
\* refinement goes on with the next section either way;
\* _generate_section: "if not response.success: raise Exception(...)", which
\* ends generate() with progress.status = "failed"
read_response(who, resp) ==
    IF resp = NULL THEN "attribute_error"
    ELSE IF resp.success THEN "content_updated"
    ELSE IF who = "refiner" THEN "section_unchanged"
    ELSE "document_aborted"

CallerReads ==
    /\ llm_pc = "returned"
    /\ caller_outcome' = read_response(caller, llm_response)
    /\ llm_pc' = "done"
    /\ UNCHANGED << llm_config, attempt, outcomes, sleeps, llm_response,
                    outside_llm >>

LLMNext ==
    \/ ModelNotConfigured
    \/ EnterGenerate
    \/ AttemptSucceeds
    \/ AttemptFailsRetry
    \/ AttemptFailsLast
    \/ LoopFallsThrough
    \/ CallerReads

LLMSpec == LLMInit /\ [][LLMNext]_vars

\* generate has returned to its caller
Returned == llm_pc \in {"returned", "done"}

\* the call reached generate (the model class is configured)
InGenerate == llm_pc \in {"attempt", "returned", "done"} /\ model_type \in configured_models

\* C16: with R >= 1 retry attempts generate makes at most R requests, every
\* request before the last one made has failed (it returns at the first
\* success), the k-th failed attempt that is followed by another one is
\* followed by a wait of 2^k seconds, nothing is waited after the attempt the
\* call returns from, the response is a success exactly if the last request
\* succeeded, and a failure response is returned only after R failed requests
C16_RetriesWithBackoff ==
    (InGenerate /\ retry_attempts >= 1) =>
        /\ Len(outcomes) <= retry_attempts
        /\ \A i \in 1..(Len(outcomes) - 1) : outcomes[i] = "fail"
        /\ \A i \in 1..Len(sleeps) : sleeps[i] = Pow2(i - 1)
        /\ llm_pc = "attempt" =>
              /\ Len(sleeps) = Len(outcomes)
              /\ \A i \in 1..Len(outcomes) : outcomes[i] = "fail"
        /\ Returned =>
              /\ llm_response # NULL
              /\ Len(outcomes) >= 1
              /\ Len(sleeps) = Len(outcomes) - 1
              /\ llm_response.success <=> outcomes[Len(outcomes)] = "ok"
              /\ ~llm_response.success =>
                    /\ Len(outcomes) = retry_attempts
                    /\ \A i \in 1..Len(outcomes) : outcomes[i] = "fail"

\* four requests failed, with waits of 1, 2 and 4 seconds between them
C16_Witness ==
    /\ llm_pc = "done"
    /\ retry_attempts = 4
    /\ outcomes = << "fail", "fail", "fail", "fail" >>
    /\ sleeps = << 1, 2, 4 >>
    /\ llm_response = RequestFailedResponse

\* C17: for every retry count R >= 0 generate returns a response object, so
\* the caller's read of response.success never fails
C17_AlwaysAResponse ==
    /\ (InGenerate /\ Returned) => llm_response # NULL
    /\ caller_outcome # "attribute_error"

\* C18: a model class that is missing from the configuration aborts the
\* document; the caller does not go on as if the rewrite had made no change
C18_MissingModelAborts ==
    (llm_pc = "done" /\ model_type \notin configured_models) =>
        caller_outcome = "document_aborted"

(***************************************************************************)
(* BatchProcessor.process_batch (batch/processor.py)                       *)
(***************************************************************************)

Topics == 1..MaxTopics

\* the topics argument: the first n topics, in order
TopicLists == { [i \in 1..n |-> i] : n \in 0..MaxTopics }

\* parallel_workers: 1 selects _process_sequential, anything else _process_parallel
WorkerCounts == {1, 2}

CheckpointIntervals == {1, 2}

BatchInit ==
    /\ RefinerIdle
    /\ ValidatorIdle
    /\ LLMIdle
    /\ PassIdle
    /\ SectionIdle
    /\ TriggerIdle
    /\ GeneratorIdle
    /\ parallel_workers \in WorkerCounts
    /\ checkpoint_interval \in CheckpointIntervals
    /\ topics \in TopicLists
    /\ checkpoint_file \in SUBSET Topics
    /\ loaded = {}
    /\ completed_topics = {}
    /\ remaining_topics = << >>
    /\ progress = [completed |-> 0, failed |-> 0]
    /\ next_topic = 0
    /\ futures = << >>
    /\ attempts = [t \in Topics |-> 0]
    /\ saved_entries = {}
    /\ handled = {}
    /\ batch_pc = "start"

batch_config == << parallel_workers, checkpoint_interval, topics, loaded >>

\* "remaining_topics = [t for t in topics if t not in completed_topics]"
filter_remaining(ts, done) ==
    LET keep(t) == t \notin done IN SelectSeq(ts, keep)

\* the failure is not counted
count_failure_dropped(p) == p

\* "progress.failed += 1"
count_failure(p) == [p EXCEPT !.failed = @ + 1]

\* "progress.completed += 1"
count_completed(p) == [p EXCEPT !.completed = @ + 1]

\* "if progress.completed % self.checkpoint_interval == 0: self._save_checkpoint(...)";
\* _save_checkpoint swallows a failed write, which leaves the file as it was
save_checkpoint(file, p, done, written) ==
    IF p.completed % checkpoint_interval = 0 /\ written THEN done ELSE file

\* process_batch up to the call of _process_sequential or _process_parallel;
\* in parallel mode every remaining topic is submitted to the executor
ProcessBatchStart ==
    /\ batch_pc = "start"
    /\ loaded' = checkpoint_file
    /\ completed_topics' = checkpoint_file
    /\ remaining_topics' = filter_remaining(topics, checkpoint_file)
    /\ progress' = [completed |-> Cardinality(checkpoint_file), failed |-> 0]
    /\ next_topic' = 1
    /\ futures' = IF parallel_workers = 1 THEN << >>
                  ELSE [t \in {topics[i] : i \in 1..Len(topics)} \ checkpoint_file
                           |-> "pending"]
    /\ batch_pc' = "processing"
    /\ UNCHANGED << parallel_workers, checkpoint_interval, topics, checkpoint_file,
                    attempts, saved_entries, handled, outside_batch >>

InSequential ==
    /\ batch_pc = "processing"
    /\ parallel_workers = 1
    /\ next_topic <= Len(remaining_topics)

\* a pass of the loop of _process_sequential in which generator.generate or
\* _save_entry raises: "except Exception: ... progress.failed += 1"
SeqTopicFails ==
    /\ InSequential
    /\ attempts' = [attempts EXCEPT ![remaining_topics[next_topic]] = @ + 1]
    /\ progress' = count_failure(progress)
    /\ handled' = handled \cup {remaining_topics[next_topic]}
    /\ next_topic' = next_topic + 1
    /\ UNCHANGED << batch_config, checkpoint_file, completed_topics, remaining_topics,
                    futures, saved_entries, batch_pc, outside_batch >>

\* a pass of the loop of _process_sequential that generates and saves the entry
SeqTopicCompletes ==
    /\ InSequential
    /\ \E written \in BOOLEAN :
        /\ attempts' = [attempts EXCEPT ![remaining_topics[next_topic]] = @ + 1]
        /\ saved_entries' = saved_entries \cup {remaining_topics[next_topic]}
        /\ progress' = count_completed(progress)
        /\ completed_topics' = completed_topics \cup {remaining_topics[next_topic]}
        /\ checkpoint_file' =
              save_checkpoint(checkpoint_file, progress', completed_topics', written)
        /\ handled' = handled \cup {remaining_topics[next_topic]}
        /\ next_topic' = next_topic + 1
    /\ UNCHANGED << batch_config, remaining_topics, futures, batch_pc, outside_batch >>

InParallel ==
    /\ batch_pc = "processing"
    /\ parallel_workers # 1

Running == { t \in DOMAIN futures : futures[t] = "running" }

\* a free worker of the pool takes a submitted topic: _generate_entry_safe
\* calls generator.generate
WorkerStarts(t) ==
    /\ InParallel
    /\ t \in DOMAIN futures
    /\ futures[t] = "pending"
    /\ Cardinality(Running) < parallel_workers
    /\ futures' = [futures EXCEPT ![t] = "running"]
    /\ attempts' = [attempts EXCEPT ![t] = @ + 1]
    /\ UNCHANGED << batch_config, checkpoint_file, completed_topics, remaining_topics,
                    progress, next_topic, saved_entries, handled, batch_pc,
                    outside_batch >>

\* _generate_entry_safe returns the entry, or None when generate raised
WorkerReturns(t) ==
    /\ InParallel
    /\ t \in DOMAIN futures
    /\ futures[t] = "running"
    /\ \E result \in {"entry", "none"} : futures' = [futures EXCEPT ![t] = result]
    /\ UNCHANGED << batch_config, checkpoint_file, completed_topics, remaining_topics,
                    progress, next_topic, attempts, saved_entries, handled, batch_pc,
                    outside_batch >>

\* a pass of the as_completed loop: the future holds an entry and it is saved
ParTopicCompletes(t) ==
    /\ InParallel
    /\ t \in DOMAIN futures
    /\ futures[t] = "entry"
    /\ \E written \in BOOLEAN :
        /\ saved_entries' = saved_entries \cup {t}
        /\ progress' = count_completed(progress)
        /\ completed_topics' = completed_topics \cup {t}
        /\ checkpoint_file' =
              save_checkpoint(checkpoint_file, progress', completed_topics', written)
        /\ handled' = handled \cup {t}
        /\ futures' = [futures EXCEPT ![t] = "handled"]
    /\ UNCHANGED << batch_config, remaining_topics, next_topic, attempts, batch_pc,
                    outside_batch >>

\* a pass of the as_completed loop: the future holds an entry and _save_entry
\* raises: "except Exception: ... progress.failed += 1"
ParSaveFails(t) ==
    /\ InParallel
    /\ t \in DOMAIN futures
    /\ futures[t] = "entry"
    /\ progress' = count_failure(progress)
    /\ handled' = handled \cup {t}
    /\ futures' = [futures EXCEPT ![t] = "handled"]
    /\ UNCHANGED << batch_config, checkpoint_file, completed_topics, remaining_topics,
                    next_topic, attempts, saved_entries, batch_pc, outside_batch >>

\* a pass of the as_completed loop: the future holds None; "progress.failed += 1",
\* then "completed_topics.add(topic)" and the checkpoint test, which follow
\* the if/else
ParGenerationFailed(t) ==
    /\ InParallel
    /\ t \in DOMAIN futures
    /\ futures[t] = "none"
    /\ \E written \in BOOLEAN :
        /\ progress' = count_failure(progress)
        /\ completed_topics' = completed_topics \cup {t}
        /\ checkpoint_file' =
              save_checkpoint(checkpoint_file, progress', completed_topics', written)
        /\ handled' = handled \cup {t}
        /\ futures' = [futures EXCEPT ![t] = "handled"]
    /\ UNCHANGED << batch_config, remaining_topics, next_topic, attempts,
                    saved_entries, batch_pc, outside_batch >>

\* the loop is over: _print_final_report, and process_batch returns
ProcessBatchReturns ==
    /\ batch_pc = "processing"
    /\ IF parallel_workers = 1
       THEN next_topic > Len(remaining_topics)
       ELSE \A t \in DOMAIN futures : futures[t] = "handled"
    /\ batch_pc' = "returned"
    /\ UNCHANGED << batch_config, checkpoint_file, completed_topics, remaining_topics,
                    progress, next_topic, futures, attempts, saved_entries, handled,
                    outside_batch >>

BatchNext ==
    \/ ProcessBatchStart
    \/ SeqTopicFails
    \/ SeqTopicCompletes
    \/ \E t \in Topics : WorkerStarts(t)
    \/ \E t \in Topics : WorkerReturns(t)
    \/ \E t \in Topics : ParTopicCompletes(t)
    \/ \E t \in Topics : ParSaveFails(t)
    \/ \E t \in Topics : ParGenerationFailed(t)
    \/ ProcessBatchReturns

BatchSpec == BatchInit /\ [][BatchNext]_vars

\* the topics of the argument that the loaded checkpoint does not hold
ToProcess == { topics[i] : i \in 1..Len(topics) } \ loaded

\* C19: a failed topic does not stop the batch: no topic is attempted more
\* than once, every pass that has ended has added one to exactly one of
\* progress.completed and progress.failed, and when process_batch has
\* returned (it never raises) every topic outside the loaded checkpoint has
\* been attempted exactly once and topics of the checkpoint not at all
C19_FailuresAreIsolated ==
    /\ batch_pc # "raised"
    /\ \A t \in Topics : attempts[t] <= 1
    /\ batch_pc \in {"processing", "returned"} =>
          /\ progress.completed = Cardinality(loaded) + Cardinality(saved_entries)
          /\ progress.failed = Cardinality(handled \ saved_entries)
          /\ saved_entries \subseteq handled
    /\ batch_pc = "returned" =>
          /\ handled = ToProcess
          /\ \A t \in Topics : attempts[t] = (IF t \in ToProcess THEN 1 ELSE 0)

\* a sequential batch of three topics has returned; the first topic failed
\* and the two after it were completed
C19_Witness ==
    /\ batch_pc = "returned"
    /\ parallel_workers = 1
    /\ loaded = {}
    /\ Len(topics) = 3
    /\ handled \ saved_entries = {1}
    /\ saved_entries = {2, 3}
    /\ progress = [completed |-> 2, failed |-> 1]

\* C20: the completed-topics set, in memory and on disk, only holds topics
\* of the loaded checkpoint and topics whose entry was generated and saved
\* in this run
C20_CheckpointOnlyHoldsSaved ==
    batch_pc \in {"processing", "returned"} =>
        /\ completed_topics \subseteq loaded \cup saved_entries
        /\ checkpoint_file \subseteq loaded \cup saved_entries

(***************************************************************************)
(* _process_parallel statement by statement: the workers of the pool run   *)
(* _generate_entry_safe; the thread that called process_batch runs the     *)
(* body of "for future in as_completed(...)", one pass after the other     *)
(***************************************************************************)

\* worker counts that select _process_parallel
ParallelWorkerCounts == {2, 3}

ParallelInit ==
    /\ RefinerIdle
    /\ ValidatorIdle
    /\ LLMIdle
    /\ PassIdle
    /\ SectionIdle
    /\ TriggerIdle
    /\ GeneratorIdle
    /\ parallel_workers \in ParallelWorkerCounts
    /\ checkpoint_interval \in CheckpointIntervals
    /\ topics \in TopicLists
    /\ checkpoint_file \in SUBSET Topics
    /\ loaded = {}
    /\ completed_topics = {}
    /\ remaining_topics = << >>
    /\ progress = [completed |-> 0, failed |-> 0]
    /\ next_topic = 0
    /\ futures = << >>
    /\ attempts = [t \in Topics |-> 0]
    /\ saved_entries = {}
    /\ handled = {}
    /\ batch_pc = "start"

outside_parallel == << refiner_vars, validator_vars, llm_vars, section_vars, trigger_vars, generator_vars >>

\* the topics whose pass of the loop body has begun and not ended
InPass ==
    { t \in DOMAIN futures :
        futures[t] \in {"completing", "failing_none", "failing_save", "counted"} }

\* a pass begins whatever the other passes are doing
loop_is_free_always(in_pass) == TRUE

\* the body of the for loop runs in one thread: a pass begins when the one
\* before it has ended
loop_is_free(in_pass) == in_pass = {}

read_register(regs, t, value) ==
    [u \in DOMAIN regs \cup {t} |-> IF u = t THEN value ELSE regs[u]]

\* "entry = future.result()", "if entry:", _save_entry succeeds, and the
\* read of "progress.completed += 1"
PassSaves(t) ==
    /\ InParallel
    /\ t \in DOMAIN futures
    /\ futures[t] = "entry"
    /\ loop_is_free(InPass)
    /\ saved_entries' = saved_entries \cup {t}
    /\ registers' = read_register(registers, t, progress.completed)
    /\ futures' = [futures EXCEPT ![t] = "completing"]
    /\ UNCHANGED << batch_config, checkpoint_file, completed_topics, remaining_topics,
                    progress, next_topic, attempts, handled, batch_pc, outside_parallel >>

\* "entry = future.result()", "if entry:", _save_entry raises, and the read
\* of "progress.failed += 1" in the except clause
PassSaveRaises(t) ==
    /\ InParallel
    /\ t \in DOMAIN futures
    /\ futures[t] = "entry"
    /\ loop_is_free(InPass)
    /\ registers' = read_register(registers, t, progress.failed)
    /\ futures' = [futures EXCEPT ![t] = "failing_save"]
    /\ UNCHANGED << batch_config, checkpoint_file, completed_topics, remaining_topics,
                    progress, next_topic, attempts, saved_entries, handled, batch_pc,
                    outside_parallel >>

\* "entry = future.result()" is None: the read of "progress.failed += 1" in
\* the else branch
PassSeesNone(t) ==
    /\ InParallel
    /\ t \in DOMAIN futures
    /\ futures[t] = "none"
    /\ loop_is_free(InPass)
    /\ registers' = read_register(registers, t, progress.failed)
    /\ futures' = [futures EXCEPT ![t] = "failing_none"]
    /\ UNCHANGED << batch_config, checkpoint_file, completed_topics, remaining_topics,
                    progress, next_topic, attempts, saved_entries, handled, batch_pc,
                    outside_parallel >>

\* the write of "progress.completed += 1"
PassCountsCompleted(t) ==
    /\ InParallel
    /\ t \in DOMAIN futures
    /\ futures[t] = "completing"
    /\ progress' = [progress EXCEPT !.completed = registers[t] + 1]
    /\ futures' = [futures EXCEPT ![t] = "counted"]
    /\ UNCHANGED << batch_config, checkpoint_file, completed_topics, remaining_topics,
                    next_topic, attempts, saved_entries, handled, batch_pc, registers,
                    outside_parallel >>

\* the write of "progress.failed += 1" in the else branch
PassCountsFailed(t) ==
    /\ InParallel
    /\ t \in DOMAIN futures
    /\ futures[t] = "failing_none"
    /\ progress' = [progress EXCEPT !.failed = registers[t] + 1]
    /\ futures' = [futures EXCEPT ![t] = "counted"]
    /\ UNCHANGED << batch_config, checkpoint_file, completed_topics, remaining_topics,
                    next_topic, attempts, saved_entries, handled, batch_pc, registers,
                    outside_parallel >>

\* the write of "progress.failed += 1" in the except clause, which ends the pass
PassCountsRaised(t) ==
    /\ InParallel
    /\ t \in DOMAIN futures
    /\ futures[t] = "failing_save"
    /\ progress' = [progress EXCEPT !.failed = registers[t] + 1]
    /\ futures' = [futures EXCEPT ![t] = "handled"]
    /\ handled' = handled \cup {t}
    /\ UNCHANGED << batch_config, checkpoint_file, completed_topics, remaining_topics,
                    next_topic, attempts, saved_entries, batch_pc, registers,
                    outside_parallel >>

\* "completed_topics.add(topic)", the checkpoint test and write, _print_progress
PassCheckpoints(t) ==
    /\ InParallel
    /\ t \in DOMAIN futures
    /\ futures[t] = "counted"
    /\ \E written \in BOOLEAN :
        /\ completed_topics' = completed_topics \cup {t}
        /\ checkpoint_file' =
              save_checkpoint(checkpoint_file, progress, completed_topics', written)
    /\ futures' = [futures EXCEPT ![t] = "handled"]
    /\ handled' = handled \cup {t}
    /\ UNCHANGED << batch_config, remaining_topics, progress, next_topic, attempts,
                    saved_entries, batch_pc, registers, outside_parallel >>

ParallelNext ==
    \/ ProcessBatchStart
    \/ \E t \in Topics : WorkerStarts(t)
    \/ \E t \in Topics : WorkerReturns(t)
    \/ \E t \in Topics : PassSaves(t)
    \/ \E t \in Topics : PassSaveRaises(t)
    \/ \E t \in Topics : PassSeesNone(t)
    \/ \E t \in Topics : PassCountsCompleted(t)
    \/ \E t \in Topics : PassCountsFailed(t)
    \/ \E t \in Topics : PassCountsRaised(t)
    \/ \E t \in Topics : PassCheckpoints(t)
    \/ ProcessBatchReturns

ParallelSpec == ParallelInit /\ [][ParallelNext]_vars

\* C21: in parallel mode, whatever the order in which the workers finish, at
\* most one pass over the shared set, the counters and the checkpoint file is
\* in progress at a time, every topic whose pass has ended after a successful
\* save is in the completed-topics set, the file holds nothing the set does
\* not hold, and when process_batch has returned every submitted topic has
\* been counted: completed is the loaded count plus the topics saved, failed
\* is the number of the others
C21_UpdatesAreSerialized ==
    /\ Cardinality(InPass) <= 1
    /\ batch_pc \in {"processing", "returned"} =>
          /\ saved_entries \cap handled \subseteq completed_topics
          /\ checkpoint_file \subseteq completed_topics
          /\ progress.completed + progress.failed
                >= Cardinality(loaded) + Cardinality(handled)
    /\ batch_pc = "returned" =>
          /\ handled = ToProcess
          /\ progress.completed = Cardinality(loaded) + Cardinality(saved_entries)
          /\ progress.failed = Cardinality(handled \ saved_entries)

\* a batch of three topics run by two workers has returned with two topics
\* completed and one failed
C21_Witness ==
    /\ batch_pc = "returned"
    /\ parallel_workers = 2
    /\ Len(topics) = 3
    /\ loaded = {}
    /\ progress = [completed |-> 2, failed |-> 1]
    /\ Cardinality(saved_entries) = 2

(***************************************************************************)
(* process_batch under a process-level interrupt                           *)
(***************************************************************************)

\* KeyboardInterrupt is raised in the thread that runs process_batch while
\* the topics are processed.  It is not an Exception, so neither
\* "except Exception" of the loops catches it; process_batch has no finally
\* clause and no handler of its own, so the call ends there: the entry in
\* progress is dropped and nothing is written
ProcessInterrupted ==
    /\ batch_pc = "processing"
    /\ batch_pc' = "interrupted"
    /\ UNCHANGED << batch_config, checkpoint_file, completed_topics, remaining_topics,
                    progress, next_topic, futures, attempts, saved_entries, handled,
                    outside_batch >>

InterruptNext ==
    \/ BatchNext
    \/ ProcessInterrupted

InterruptSpec == BatchInit /\ [][InterruptNext]_vars

\* C22: after an interrupt the checkpoint on disk holds every topic that was
\* completed before the interrupt
C22_InterruptKeepsCompleted ==
    batch_pc = "interrupted" => saved_entries \subseteq checkpoint_file

(***************************************************************************)
(* class Section (core/models.py): construction and update_content         *)
(***************************************************************************)

\* the characters of a content string: a letter and a blank
Chars == {"a", " "}

Contents == UNION { [1..n -> Chars] : n \in 0..MaxChars }

\* "len(content.split())": the number of maximal runs of non-blank characters
split_len(content) ==
    Cardinality({ i \in 1..Len(content) :
                    /\ content[i] # " "
                    /\ (i = 1 \/ content[i - 1] = " ") })

\* the generated __init__ stores the arguments, then __post_init__:
\* "if self.content: self.word_count = len(self.content.split())"
post_init(content, word_count) ==
    [content |-> content,
     word_count |-> IF content # << >> THEN split_len(content) ELSE word_count]

SectionInit ==
    /\ RefinerIdle
    /\ ValidatorIdle
    /\ LLMIdle
    /\ BatchIdle
    /\ PassIdle
    /\ TriggerIdle
    /\ GeneratorIdle
    /\ content_arg \in Contents
    /\ word_count_arg \in 0..MaxWordCountArg
    /\ section_obj = NULL
    /\ update_calls = 0

outside_section == << refiner_vars, validator_vars, llm_vars, batch_vars, pass_vars, trigger_vars, generator_vars >>

\* Section(name, slug, content=..., word_count=...)
ConstructSection ==
    /\ section_obj = NULL
    /\ section_obj' = post_init(content_arg, word_count_arg)
    /\ UNCHANGED << content_arg, word_count_arg, update_calls, outside_section >>

\* section.update_content(content)
UpdateContent(content) ==
    /\ section_obj # NULL
    /\ update_calls < MaxUpdates
    /\ section_obj' = [content |-> content, word_count |-> split_len(content)]
    /\ update_calls' = update_calls + 1
    /\ UNCHANGED << content_arg, word_count_arg, outside_section >>

SectionNext ==
    \/ ConstructSection
    \/ \E content \in Contents : UpdateContent(content)

SectionSpec == SectionInit /\ [][SectionNext]_vars

\* C23: a Section's word_count is the number of whitespace-separated words
\* of its content, after construction with any arguments and after any
\* sequence of update_content calls
C23_WordCountFollowsContent ==
    section_obj # NULL => section_obj.word_count = split_len(section_obj.content)

(***************************************************************************)
(* EntryRefiner._check_trigger called directly                             *)
(***************************************************************************)

\* the names _check_trigger recognises before the "<"
TriggerMetrics ==
    { "theological_depth", "patristic_citations", "word_count", "any_section",
      "coherence", "section_balance", "orthodox_perspective" }

\* the numbers written after the "<"
TriggerThresholds == {20, 70, 80, 95}

TriggerInit ==
    /\ RefinerIdle
    /\ ValidatorIdle
    /\ LLMIdle
    /\ BatchIdle
    /\ PassIdle
    /\ SectionIdle
    /\ GeneratorIdle
    /\ trigger_arg \in { Trig(m, x) : m \in TriggerMetrics, x \in TriggerThresholds }
    /\ validation_arg \in { validate(secs) : secs \in EntrySpace }
    /\ trigger_result = << >>

outside_trigger ==
    << refiner_vars, validator_vars, llm_vars, batch_vars, pass_vars, section_vars,
       generator_vars >>

\* self._check_trigger(trigger, validation)
CheckTrigger ==
    /\ trigger_result = << >>
    /\ trigger_result' = << check_trigger(trigger_arg, validation_arg) >>
    /\ UNCHANGED << trigger_arg, validation_arg, outside_trigger >>

TriggerNext == CheckTrigger

TriggerSpec == TriggerInit /\ [][TriggerNext]_vars

\* the value of the ValidationResult that _check_trigger compares for a
\* metric name, in hundredths
compared_value(metric, validation) ==
    IF      metric = "theological_depth" THEN validation.theological_depth_score
    ELSE IF metric = "patristic_citations" THEN validation.patristic_citations * 100
    ELSE IF metric = "word_count" THEN validation.word_count_score
    ELSE IF metric = "any_section" THEN validation.section_balance_score
    ELSE IF metric = "coherence" THEN validation.coherence_score
    ELSE IF metric = "section_balance" THEN validation.section_balance_score
    ELSE validation.orthodox_perspective_score

\* C24: a recognised trigger "<name> < X" is true exactly if the value it
\* compares is strictly less than the X written in the trigger
C24_ThresholdIsTheOneWritten ==
    trigger_result # << >> =>
        (trigger_result[1] <=>
            compared_value(trigger_arg.metric, validation_arg)
                < trigger_arg.threshold * 100)

\* section i of secs is in the target set of the strategy called name
InTargetSet(name, secs, i) ==
    IF      name = "expand_sections"
    THEN secs[i].word_count < SectionConfigs[i].min_words
    ELSE IF name = "balance_sections"
    THEN secs[i].word_count * 10 > SectionConfigs[i].max_words * 12
    ELSE IF name = "strengthen_orthodox_perspective"
    THEN SectionConfigs[i].slug \in {"introduction", "orthodox_affirmation", "conclusion"}
    ELSE IF name = "improve_coherence"
    THEN i # 1
    ELSE IF name = "enhance_theological_depth"
    THEN Feat(secs[i].content).st < 3
    ELSE FALSE

NamedWorks(content) == 1..Feat(content).works

\* the distinct works named in the entry
DistinctWorks(secs) == UNION { NamedWorks(secs[i].content) : i \in 1..Len(secs) }

\* C26: the specificity score is the step function >= 3: 100, 2: 70, 1: 40,
\* else 20 of the number of distinct works named in the entry
C26_SpecificityCountsDistinctWorks ==
    v_result # NULL =>
        v_result.specificity_score =
            (LET distinct == Cardinality(DistinctWorks(v_sections))
             IN  IF distinct >= 3 THEN 10000
                 ELSE IF distinct = 2 THEN 7000
                 ELSE IF distinct = 1 THEN 4000
                 ELSE 2000)

\* C27: when process_batch has returned, the checkpoint on disk holds every
\* topic completed in the run, whatever the interval and the number of topics
C27_ReturnPersistsCompleted ==
    batch_pc = "returned" => saved_entries \subseteq checkpoint_file

(***************************************************************************)
(* CelestialGenerator.generate from phase 3 on (core/generator.py): the    *)
(* sections are generated, the entry is validated and, if its score is     *)
(* under min_score, handed to refine_to_celestial                          *)
(***************************************************************************)

\* the max_refinements argument: None, or a number
RefinementArgs == { << >> } \cup { << m >> : m \in 0..MaxIterations }

GeneratorInit ==
    /\ \E f \in [SectionIdx -> Texts] : sections = [i \in SectionIdx |-> NewSection(f[i])]
    /\ validation_result = NULL
    /\ refinement_iterations = 0
    /\ max_iterations = 0
    /\ strategies \in StrategyConfigs
    /\ min_score \in MinScores
    /\ target_tier \in DefaultTargetTiers
    /\ iteration = 0
    /\ best_score = 0
    /\ tasks = <<>>
    /\ task_idx = 0
    /\ targets = <<>>
    /\ pc = "validating"
    /\ validations = 0
    /\ gen_calls = 0
    /\ last_response = "none"
    /\ full_iterations = 0
    /\ stable = TRUE
    /\ exit_path = "none"
    /\ ValidatorIdle
    /\ LLMIdle
    /\ BatchIdle
    /\ PassIdle
    /\ SectionIdle
    /\ TriggerIdle
    /\ max_refinements \in RefinementArgs
    /\ refinement_max_iterations \in 0..MaxIterations

\* "max_iterations = max_refinements or self.config.refinement_max_iterations":
\* None and 0 are both false
effective_iterations(arg, configured) ==
    IF arg = << >> THEN configured
    ELSE IF arg[1] = 0 THEN configured
    ELSE arg[1]

\* phases 3 and 4: the score is under min_score, refine_to_celestial is
\* called and reaches its loop (lines 48-49 of refiner.py)
GeneratorRefines ==
    /\ pc = "validating"
    /\ \E v \in {validate(sections)} :
         /\ v.overall_score < min_score * 10000
         /\ validation_result' = v
         /\ best_score' = v.overall_score
    /\ max_iterations' = effective_iterations(max_refinements, refinement_max_iterations)
    /\ pc' = "loop"
    /\ UNCHANGED << sections, refinement_iterations, strategies, min_score, target_tier,
                    iteration, tasks, task_idx, targets, validations, gen_calls,
                    last_response, full_iterations, stable, exit_path, outside_refiner >>

\* phases 3 and 5: the score is not under min_score, phase 4 is skipped
GeneratorSkipsRefinement ==
    /\ pc = "validating"
    /\ \E v \in {validate(sections)} :
         /\ ~(v.overall_score < min_score * 10000)
         /\ validation_result' = v
    /\ pc' = "complete"
    /\ UNCHANGED << sections, refinement_iterations, config_vars, iteration, best_score,
                    tasks, task_idx, targets, validations, gen_calls, last_response,
                    full_iterations, stable, exit_path, outside_refiner >>

GeneratorNext ==
    \/ GeneratorRefines
    \/ GeneratorSkipsRefinement
    \/ Next

GeneratorSpec == GeneratorInit /\ [][GeneratorNext]_vars

\* C28: generate called with max_refinements = M performs at most M
\* refinement iterations, none for M = 0
C28_AtMostMRefinements ==
    max_refinements # << >> =>
        /\ iteration <= max_refinements[1]
        /\ refinement_iterations <= max_refinements[1]

\* values given to the four quality-metric scores of a validation result
MetricProbes == {0, 10000}

\* the validation results that agree with v on tier, overall score, the five
\* criterion scores and the statistics
Variants(v) ==
    { [v EXCEPT !.diversity_score = d, !.specificity_score = s,
                !.integration_score = g, !.distribution_score = t, !.passed = p] :
        d \in MetricProbes, s \in MetricProbes, g \in MetricProbes,
        t \in MetricProbes, p \in BOOLEAN }

\* C29: at the top of every iteration, the stop decision and the task list
\* the controller derives from the validation of the entry are the same for
\* every result that differs from it only in the diversity, specificity,
\* integration and distribution scores and in the passed flag
C29_MetricsDoNotInfluenceControl ==
    pc = "loop" =>
        \A alt \in Variants(validate(sections)) :
            /\ target_achieved(alt, min_score)
                  <=> target_achieved(validate(sections), min_score)
            /\ identify_refinement_tasks(strategies, alt)
                  = identify_refinement_tasks(strategies, validate(sections))

\* the loop has stopped with success on an entry whose passed flag is false
C29_Witness ==
    /\ Done
    /\ exit_path = "success"
    /\ validation_result = validate(sections)
    /\ validation_result.tier = "CELESTIAL"
    /\ ~validation_result.passed

\* C30: the coherence score is 82.5 plus 1.25 for each cross-reference up to
\* five: one of 82.5, 83.75, 85, 86.25, 87.5, 88.75, never 100 and never
\* under 82.5, whatever the entry holds
C30_CoherenceRange ==
    v_result # NULL =>
        /\ v_result.coherence_score = 8250 + 125 * Min(CountAll(v_sections, "cross"), 5)
        /\ v_result.coherence_score \in {8250, 8375, 8500, 8625, 8750, 8875}

\* an entry with more than five cross-references scores 88.75
C30_Witness ==
    /\ v_result # NULL
    /\ CountAll(v_sections, "cross") > 5
    /\ v_result.coherence_score = 8875

====
